---------------------------- MODULE Spec2Model ----------------------------
(***************************************************************************)
(* Model of the four simulation engines of logistic-react:                 *)
(*   - the Brusselator oscillator (ChemicalOscillator, RK4, two buffers),   *)
(*   - the Lorenz attractor (LorenzAttractor, Euler, one trail buffer),     *)
(*   - the bifurcation sampler (BifurcationDiagram, useMemo),               *)
(*   - the year-by-year logistic calculator (PopulationCalculator).         *)
(*                                                                         *)
(* JavaScript numbers are modelled as a small floating format: a finite    *)
(* number is a fixed-point integer counting units of 1/Scale, the finite   *)
(* range is [-MaxFloat, MaxFloat] (MaxFloat plays Number.MAX_VALUE), and   *)
(* three reserved integers outside that range stand for Infinity,          *)
(* -Infinity and NaN.  Every arithmetic operator rounds its exact result   *)
(* to the nearest unit and overflows to an infinity, as IEEE arithmetic    *)
(* does at its own precision and range.  The signed zero is not modelled.  *)
(***************************************************************************)
EXTENDS Integers, Sequences, FiniteSets, TLC

\* ------------------------------------------------------------------------
\* The number format
\* ------------------------------------------------------------------------

Scale == 10 ^ 4
MaxFloat == 10 ^ 9
PInf == MaxFloat + 1
NInf == 0 - PInf
NaN == MaxFloat + 2

IsNaN(a) == a = NaN
IsFinite(a) == a >= 0 - MaxFloat /\ a <= MaxFloat

\* n/d as a number of the format, for the literals of the source (5.5 is Num(55, 10))
Num(n, d) == (n * Scale) \div d

Abs(a) == IF a < 0 THEN 0 - a ELSE a
Sign(a) == IF a < 0 THEN 0 - 1 ELSE IF a > 0 THEN 1 ELSE 0

\* an exact integer result brought back into the format: overflow gives an infinity
Norm(n) == IF n > MaxFloat THEN PInf ELSE IF n < 0 - MaxFloat THEN NInf ELSE n

FNeg(a) == IF IsNaN(a) THEN NaN ELSE 0 - a

FAdd(a, b) ==
    IF IsNaN(a) \/ IsNaN(b) THEN NaN
    ELSE IF a = PInf THEN (IF b = NInf THEN NaN ELSE PInf)
    ELSE IF a = NInf THEN (IF b = PInf THEN NaN ELSE NInf)
    ELSE IF b = PInf \/ b = NInf THEN b
    ELSE Norm(a + b)

FSub(a, b) == FAdd(a, FNeg(b))

\* a + b for 0 <= a, b <= MaxFloat or a = PInf, saturating at PInf
SatAdd(a, b) == IF a = PInf THEN PInf ELSE Norm(a + b)

\* |x * y| for finite x, y >= 0, rounded to the nearest unit; PInf on overflow.
\* The product is taken in parts so that no intermediate leaves 32 bits.
MulMag(x, y) ==
    LET xq == x \div Scale
        xr == x % Scale
        yq == y \div Scale
        yr == y % Scale
    IN  IF yq > 0 /\ xq > (MaxFloat \div Scale) \div yq THEN PInf
        ELSE SatAdd(SatAdd(SatAdd(xq * yq * Scale, xq * yr), xr * yq),
                    (xr * yr + Scale \div 2) \div Scale)

FMul(a, b) ==
    IF IsNaN(a) \/ IsNaN(b) THEN NaN
    ELSE IF ~IsFinite(a) \/ ~IsFinite(b)
         THEN (IF a = 0 \/ b = 0 THEN NaN
               ELSE IF Sign(a) * Sign(b) > 0 THEN PInf ELSE NInf)
    ELSE LET m == MulMag(Abs(a), Abs(b))
         IN  IF Sign(a) * Sign(b) < 0 THEN 0 - m ELSE m

\* the decimal digit (10 * r) \div y for 0 <= r < y, found without forming 10 * r
Digit(r, y) ==
    LET yq == y \div 10
        yr == y % 10
    IN  CHOOSE d \in 0..9 :
            /\ d * yq + ((d * yr + 9) \div 10) <= r
            /\ d = 9 \/ (d + 1) * yq + (((d + 1) * yr + 9) \div 10) > r

\* the digits of r/y below the unit s, r < y: <<quotient, remainder>>
RECURSIVE DivFrac(_, _, _)
DivFrac(r, y, s) ==
    IF s = 1 THEN <<0, r>>
    ELSE LET d == Digit(r, y)
             rest == DivFrac(10 * (r - d * (y \div 10)) - d * (y % 10), y, s \div 10)
         IN  <<d * (s \div 10) + rest[1], rest[2]>>

\* |x / y| for finite x >= 0, y > 0, rounded to the nearest unit; PInf on overflow
DivMag(x, y) ==
    LET q == x \div y
        f == DivFrac(x % y, y, Scale)
    IN  IF q > MaxFloat \div Scale THEN PInf
        ELSE Norm(q * Scale + f[1] + (IF 2 * f[2] >= y THEN 1 ELSE 0))

FDiv(a, b) ==
    IF IsNaN(a) \/ IsNaN(b) THEN NaN
    ELSE IF ~IsFinite(a)
         THEN (IF ~IsFinite(b) THEN NaN
               ELSE IF (a > 0) = (b >= 0) THEN PInf ELSE NInf)
    ELSE IF ~IsFinite(b) THEN 0
    ELSE IF b = 0
         THEN (IF a = 0 THEN NaN ELSE IF a > 0 THEN PInf ELSE NInf)
    ELSE LET m == DivMag(Abs(a), Abs(b))
         IN  IF Sign(a) * Sign(b) < 0 THEN 0 - m ELSE m

\* Math.max of two arguments: NaN if either is NaN
MathMax(a, b) ==
    IF IsNaN(a) \/ IsNaN(b) THEN NaN ELSE IF a >= b THEN a ELSE b

\* Math.round: the nearest integer, halves upwards; NaN and infinities unchanged
MathRound(a) ==
    IF ~IsFinite(a) THEN a ELSE Norm(((a + Scale \div 2) \div Scale) * Scale)

\* the comparisons of the language: every comparison with NaN is false
FLt(a, b) == ~IsNaN(a) /\ ~IsNaN(b) /\ a < b
FGe(a, b) == ~IsNaN(a) /\ ~IsNaN(b) /\ a >= b
FGt(a, b) == ~IsNaN(a) /\ ~IsNaN(b) /\ a > b

\* Body(e), with e evaluated once
With(e, Body(_)) == CHOOSE r \in {Body(v) : v \in {e}} : TRUE

\* a parse whose result is stored as it is
ParseKeepsNaN(v) == v

\* parseFloat(value) || 0 on the parse result v of the input text (NaN when the
\* text is no number): NaN and 0 are falsy
ParseOrZero(v) == IF IsNaN(v) \/ v = 0 THEN 0 ELSE v


\* ------------------------------------------------------------------------
\* Bounds of the model
\* ------------------------------------------------------------------------

\* capacity of the Brusselator buffers (1000 in the source, scaled down)
maxPoints == 3
\* unpaused Brusselator ticks explored from a reset
MaxTicks == 4
\* parameter edits explored in one run of a component
MaxEdits == 1

\* ------------------------------------------------------------------------
\* Brusselator (ChemicalOscillator)
\* ------------------------------------------------------------------------

VARIABLES
    parameters,     \* useState: A, B, k1..k4
    isPaused,       \* useState
    systemState,    \* systemStateRef.current: X, Y, time, phasePoints, timePoints, animationId
    frames,         \* animation frames requested and not yet run or cancelled, each
                    \* with the isPaused and parameters its animate closure captured
    bLife,          \* "init" before the component mounts, "mounted", "unmounted"
    bAppended,      \* history: the points pushed since the last reset, oldest first
    bEdits,         \* history: parameter edits so far
    bOp,            \* history: the operation that ran last
    bDropped,       \* history: the points the last operation discarded by a reset
    bCanvas         \* what the last frame drew: the segments of the phase diagram
                    \* and the points of each time series

bvars == <<parameters, isPaused, systemState, frames, bLife, bAppended, bEdits, bOp,
           bDropped, bCanvas>>

dt == Scale \div 100

ParamKeys == {"A", "B", "k1", "k2", "k3", "k4"}

InitialParameters ==
    [B |-> Num(55, 10), A |-> Num(2, 1), k1 |-> Num(1, 1), k2 |-> Num(1, 1),
     k3 |-> Num(1, 1), k4 |-> Num(1, 1)]

InitialSystemState ==
    [X |-> Num(1, 1), Y |-> Num(1, 1), time |-> 0, phasePoints |-> <<>>,
     timePoints |-> <<>>, animationId |-> 0]

\* k1 * A - k2 * B * x + k3 * x * x * y - k4 * x  and  k2 * B * x - k3 * x * x * y,
\* in the evaluation order of the language (left to right)
derivatives(x, y, params) ==
    LET k2Bx == FMul(FMul(params.k2, params.B), x)
        k3xxy == FMul(FMul(FMul(params.k3, x), x), y)
        dxdt == FSub(FAdd(FSub(FMul(params.k1, params.A), k2Bx), k3xxy),
                     FMul(params.k4, x))
        dydt == FSub(k2Bx, k3xxy)
    IN  <<dxdt, dydt>>

\* the weighted sum k1 + 2 * k2 + 2 * k3 + k4 of the four stages
StageSum(s1, s2, s3, s4) ==
    FAdd(FAdd(FAdd(s1, FMul(Num(2, 1), s2)), FMul(Num(2, 1), s3)), s4)

\* a step that returns its components unclamped
ClampMissing(v) == v

\* the value the step returns for an unclamped component
Clamp(v) == MathMax(0, v)

\* a combination that returns the increment without the old state
CombineIncrementOnly(x, y, h, s1, s2, s3, s4) ==
    LET sixth == FDiv(h, Num(6, 1))
        newX == FMul(sixth, StageSum(s1[1], s2[1], s3[1], s4[1]))
        newY == FMul(sixth, StageSum(s1[2], s2[2], s3[2], s4[2]))
    IN  <<Clamp(newX), Clamp(newY)>>

\* the new state from the four stages
Combine(x, y, h, s1, s2, s3, s4) ==
    LET sixth == FDiv(h, Num(6, 1))
        newX == FAdd(x, FMul(sixth, StageSum(s1[1], s2[1], s3[1], s4[1])))
        newY == FAdd(y, FMul(sixth, StageSum(s1[2], s2[2], s3[2], s4[2])))
    IN  <<Clamp(newX), Clamp(newY)>>

\* a stage that displaces each component along the other component of s
StageCrossed(x, y, c, h, s, params) ==
    derivatives(FAdd(x, FMul(FMul(c, h), s[2])), FAdd(y, FMul(FMul(c, h), s[1])), params)

\* the stage evaluated at the state displaced by c * h along the stage s
Stage(x, y, c, h, s, params) ==
    derivatives(FAdd(x, FMul(FMul(c, h), s[1])), FAdd(y, FMul(FMul(c, h), s[2])), params)

rungeKutta(x, y, h, params) ==
    With(derivatives(x, y, params), LAMBDA s1 :
    With(Stage(x, y, Num(1, 2), h, s1, params), LAMBDA s2 :
    With(Stage(x, y, Num(1, 2), h, s2, params), LAMBDA s3 :
    With(derivatives(FAdd(x, FMul(h, s3[1])), FAdd(y, FMul(h, s3[2])), params),
         LAMBDA s4 : Combine(x, y, h, s1, s2, s3, s4)))))

\* a limit that lets the array grow one entry past cap
PushLimitedLate(points, p, cap) ==
    LET pushed == Append(points, p)
    IN  IF Len(pushed) > cap + 1 THEN Tail(pushed) ELSE pushed

\* a tick that pushes its point twice
PushLimitedTwice(points, p, cap) ==
    LET pushed == Append(Append(points, p), p)
    IN  IF Len(pushed) > cap THEN Tail(pushed) ELSE pushed

\* array.push(p) followed by "if (array.length > cap) array.shift()"
PushLimited(points, p, cap) ==
    LET pushed == Append(points, p)
    IN  IF Len(pushed) > cap THEN Tail(pushed) ELSE pushed

\* an updateSystem without the early return on isPaused
updateSystemUnguarded(state, paused, params) ==
    With(rungeKutta(state.X, state.Y, dt, params), LAMBDA xy :
    LET t == FAdd(state.time, dt)
    IN  [state EXCEPT
           !.X = xy[1], !.Y = xy[2], !.time = t,
           !.phasePoints = PushLimited(@, [x |-> xy[1], y |-> xy[2]], maxPoints),
           !.timePoints = PushLimited(@, [time |-> t, x |-> xy[1], y |-> xy[2]],
                                      maxPoints)])

\* an updateSystem that stores the state it starts from and steps afterwards
updateSystemPushesFirst(state, paused, params) ==
    IF paused THEN state
    ELSE With(rungeKutta(state.X, state.Y, dt, params), LAMBDA xy :
         LET t == FAdd(state.time, dt)
         IN  [state EXCEPT
                !.X = xy[1], !.Y = xy[2], !.time = t,
                !.phasePoints = PushLimited(@, [x |-> state.X, y |-> state.Y], maxPoints),
                !.timePoints = PushLimited(@, [time |-> state.time, x |-> state.X,
                                               y |-> state.Y], maxPoints)])

\* an updateSystem whose clock stands still
updateSystemClockStopped(state, paused, params) ==
    IF paused THEN state
    ELSE With(rungeKutta(state.X, state.Y, dt, params), LAMBDA xy :
         [state EXCEPT
            !.X = xy[1], !.Y = xy[2],
            !.phasePoints = PushLimited(@, [x |-> xy[1], y |-> xy[2]], maxPoints),
            !.timePoints = PushLimited(@, [time |-> state.time, x |-> xy[1],
                                           y |-> xy[2]], maxPoints)])

\* updateSystem under the isPaused and parameters its closure captured
updateSystem(state, paused, params) ==
    IF paused THEN state
    ELSE With(rungeKutta(state.X, state.Y, dt, params), LAMBDA xy :
         LET t == FAdd(state.time, dt)
         IN  [state EXCEPT
                !.X = xy[1], !.Y = xy[2], !.time = t,
                !.phasePoints = PushLimited(@, [x |-> xy[1], y |-> xy[2]], maxPoints),
                !.timePoints = PushLimited(@, [time |-> t, x |-> xy[1], y |-> xy[2]],
                                           maxPoints)])

\* drawPhase: nothing but the grid under two points, else one segment between
\* each two neighbours of phasePoints; it reads state and assigns nothing to it
drawPhase(state) ==
    IF Len(state.phasePoints) < 2 THEN 0 ELSE Len(state.phasePoints) - 1

\* drawTimeSeries: nothing but the grid under two points, else each curve through
\* every entry of timePoints; it reads state and assigns nothing to it
drawTimeSeries(state) ==
    IF Len(state.timePoints) < 2 THEN 0 ELSE Len(state.timePoints)

\* a reset that leaves the clock running on
resetSimulationKeepsTime(state) ==
    [state EXCEPT !.X = Num(1, 1), !.Y = Num(1, 1),
                  !.phasePoints = <<>>, !.timePoints = <<>>]

\* resetSimulation: the simulation fields return to their initial values
resetSimulation(state) ==
    [state EXCEPT !.X = Num(1, 1), !.Y = Num(1, 1), !.time = 0,
                  !.phasePoints = <<>>, !.timePoints = <<>>]

\* requestAnimationFrame returns an id no pending request and no stored handle uses
FreshId(pending, stored) ==
    CHOOSE i \in 1..(Cardinality(pending) + 2) :
        /\ i # stored
        /\ \A f \in pending : f.id # i

\* a cleanup that cancels nothing
CancelNothing(pending, id) == pending

\* cancelAnimationFrame(id), guarded by "if (state.animationId)"
Cancel(pending, id) == IF id = 0 THEN pending ELSE {f \in pending : f.id # id}

\* the effect on [animate]: cancel the stored request, request a frame for the
\* animate of this render; <<frames, animationId>>
StartAnimation(pending, stored, paused, params) ==
    LET kept == Cancel(pending, stored)
        id == FreshId(kept, stored)
    IN  <<kept \cup {[id |-> id, isPaused |-> paused, parameters |-> params]}, id>>

\* an effect that does not run again for the new animate: the pending frame
\* keeps the closure of the old render
ResubscribeNever(pending, stored, paused, params) == <<pending, stored>>

\* a render that produced a new animate: the cleanup of the old effect, then the
\* effect again
Resubscribe(pending, stored, paused, params) ==
    StartAnimation(Cancel(pending, stored), stored, paused, params)

BInit ==
    /\ parameters = InitialParameters
    /\ isPaused = FALSE
    /\ systemState = InitialSystemState
    /\ frames = {}
    /\ bLife = "init"
    /\ bAppended = <<>>
    /\ bEdits = 0
    /\ bOp = "none"
    /\ bDropped = 0
    /\ bCanvas = [phase |-> 0, time |-> 0]

\* first commit; under StrictMode in development the effect runs, is cleaned up
\* and runs again
BMount ==
    /\ bLife = "init"
    /\ \E strict \in BOOLEAN :
        LET once == StartAnimation(frames, systemState.animationId, isPaused, parameters)
            twice == Resubscribe(once[1], once[2], isPaused, parameters)
            sub == IF strict THEN twice ELSE once
        IN  /\ frames' = sub[1]
            /\ systemState' = [systemState EXCEPT !.animationId = sub[2]]
    /\ bLife' = "mounted"
    /\ bOp' = "mount"
    /\ bDropped' = 0
    /\ UNCHANGED <<parameters, isPaused, bAppended, bEdits, bCanvas>>

\* a requested frame runs: animate = updateSystem, the two drawings (which only
\* read), then the request of the next frame for the same animate
BTick ==
    /\ bLife = "mounted"
    /\ \E f \in frames :
        /\ f.isPaused \/ systemState.time < MaxTicks * dt
        /\ \E stepped \in {updateSystem(systemState, f.isPaused, f.parameters)} :
            LET rest == frames \ {f}
                id == FreshId(rest, stepped.animationId)
            IN  /\ systemState' = [stepped EXCEPT !.animationId = id]
                /\ frames' = rest \cup {[f EXCEPT !.id = id]}
                /\ bCanvas' = [phase |-> drawPhase(stepped),
                               time |-> drawTimeSeries(stepped)]
                /\ bAppended' = IF f.isPaused THEN bAppended
                                ELSE Append(bAppended,
                                            [time |-> stepped.time, x |-> stepped.X,
                                             y |-> stepped.Y])
    /\ bOp' = "tick"
    /\ bDropped' = 0
    /\ UNCHANGED <<parameters, isPaused, bLife, bEdits>>

BResetSimulation ==
    /\ bLife = "mounted"
    /\ systemState' = resetSimulation(systemState)
    /\ bAppended' = <<>>
    /\ bOp' = "reset"
    /\ bDropped' = Len(bAppended)
    /\ UNCHANGED <<parameters, isPaused, frames, bLife, bEdits, bCanvas>>

\* "Reset Parameters": setParameters(literal), resetSimulation(), then the render
\* and the effect of the new animate
BResetParameters ==
    /\ bLife = "mounted"
    /\ bEdits < MaxEdits
    /\ LET params == [B |-> Num(5, 1), A |-> Num(2, 1), k1 |-> Num(1, 1),
                      k2 |-> Num(1, 1), k3 |-> Num(1, 1), k4 |-> Num(1, 1)]
           sub == Resubscribe(frames, systemState.animationId, isPaused, params)
       IN  /\ parameters' = params
           /\ frames' = sub[1]
           /\ systemState' = [resetSimulation(systemState) EXCEPT !.animationId = sub[2]]
    /\ bAppended' = <<>>
    /\ bEdits' = bEdits + 1
    /\ bOp' = "resetParameters"
    /\ bDropped' = Len(bAppended)
    /\ UNCHANGED <<isPaused, bLife, bCanvas>>

\* setIsPaused(prev => !prev), then the render and the effect of the new animate
BTogglePause ==
    /\ bLife = "mounted"
    /\ LET sub == Resubscribe(frames, systemState.animationId, ~isPaused, parameters)
       IN  /\ isPaused' = ~isPaused
           /\ frames' = sub[1]
           /\ systemState' = [systemState EXCEPT !.animationId = sub[2]]
    /\ bOp' = "togglePause"
    /\ bDropped' = 0
    /\ UNCHANGED <<parameters, bLife, bAppended, bEdits, bCanvas>>

\* what parseFloat makes of the texts typed into a parameter field: no number,
\* zero, a fraction, the largest finite magnitude, and a negative number
ParamInputs == {NaN, 0, Num(1, 2), MaxFloat, 0 - Num(100, 1)}

\* updateParameter(key, value), then the render and the effect of the new animate
BUpdateParameter ==
    /\ bLife = "mounted"
    /\ bEdits < MaxEdits
    /\ \E key \in ParamKeys, v \in ParamInputs :
        LET params == [parameters EXCEPT ![key] = ParseOrZero(v)]
            sub == Resubscribe(frames, systemState.animationId, isPaused, params)
        IN  /\ parameters' = params
            /\ frames' = sub[1]
            /\ systemState' = [systemState EXCEPT !.animationId = sub[2]]
    /\ bEdits' = bEdits + 1
    /\ bOp' = "updateParameter"
    /\ bDropped' = 0
    /\ UNCHANGED <<isPaused, bLife, bAppended, bCanvas>>

\* the component is removed: the cleanup of the effect
BUnmount ==
    /\ bLife = "mounted"
    /\ frames' = Cancel(frames, systemState.animationId)
    /\ bLife' = "unmounted"
    /\ bOp' = "unmount"
    /\ bDropped' = 0
    /\ UNCHANGED <<parameters, isPaused, systemState, bAppended, bEdits, bCanvas>>

\* ------------------------------------------------------------------------
\* Lorenz attractor (LorenzAttractor)
\* ------------------------------------------------------------------------

\* trail capacities offered by the slider (500..5000 in the source, scaled down)
MaxTrail == 3
\* the trail capacity the component starts with (2000 in the source, scaled down)
InitialTrailLength == 2
\* Lorenz ticks explored in one run
MaxLTicks == 5

VARIABLES
    controls,       \* useState: speed, trailLength, sigma, rho, beta
    positionRef,    \* positionRef.current: x, y, z
    pointsRef,      \* pointsRef.current: the trail, oldest first
    lineRef,        \* the line of the last effect run: size of its position array
                    \* and its draw range; size 0 before the first run
    animationRef,   \* animationRef.current: the handle of the last requested frame
    lFrames,        \* animation frames requested and not yet run or cancelled, each
                    \* with the controls its animate closure captured
    lLife,          \* "init" before the component mounts, "mounted", "unmounted"
    lAppended,      \* history: points pushed since the mount, the last
                    \* resetAttractor or the last change of trailLength
    lSinceClear,    \* history: points pushed since pointsRef was last emptied
    lTicks,         \* history: runs of animate so far
    lEdits,         \* history: control changes so far
    lOp             \* history: the operation that ran last

lvars == <<controls, positionRef, pointsRef, lineRef, animationRef, lFrames, lLife,
           lAppended, lSinceClear, lTicks, lEdits, lOp>>

InitialControls ==
    [speed |-> Num(1, 1), trailLength |-> InitialTrailLength, sigma |-> Num(10, 1),
     rho |-> Num(28, 1), beta |-> FDiv(Num(8, 1), Num(3, 1))]

InitialPosition == [x |-> Num(1, 1), y |-> Num(1, 1), z |-> Num(1, 1)]

\* an Euler step that updates in sequence: dy sees the new x, dz the new x and y
LorenzStepSequential(pos, c) ==
    LET h == FMul(Num(1, 100), c.speed)
        x == FAdd(pos.x, FMul(FMul(c.sigma, FSub(pos.y, pos.x)), h))
        y == FAdd(pos.y, FMul(FSub(FMul(x, FSub(c.rho, pos.z)), pos.y), h))
        z == FAdd(pos.z, FMul(FSub(FMul(x, y), FMul(c.beta, pos.z)), h))
    IN  [x |-> x, y |-> y, z |-> z]

\* the Euler step of animate under the controls c its closure captured
LorenzStep(pos, c) ==
    LET h == FMul(Num(1, 100), c.speed)
        dx == FMul(FMul(c.sigma, FSub(pos.y, pos.x)), h)
        dy == FMul(FSub(FMul(pos.x, FSub(c.rho, pos.z)), pos.y), h)
        dz == FMul(FSub(FMul(pos.x, pos.y), FMul(c.beta, pos.z)), h)
    IN  [x |-> FAdd(pos.x, dx), y |-> FAdd(pos.y, dy), z |-> FAdd(pos.z, dz)]

\* the geometry update of animate: a draw range is set when the line exists and
\* the trail has more than one point
UpdateLine(line, points) ==
    IF line.size > 0 /\ Len(points) > 1
    THEN [line EXCEPT !.drawRange = Len(points)]
    ELSE line

\* a trail that drops its newest entry instead of its oldest
PushTrailDropsNewest(points, p, cap) ==
    LET pushed == Append(points, p)
    IN  IF Len(pushed) > cap THEN SubSeq(pushed, 1, cap) ELSE pushed

\* pointsRef.current.push(p) followed by "if (length > trailLength) shift()"
PushTrail(points, p, cap) ==
    LET pushed == Append(points, p)
    IN  IF Len(pushed) > cap THEN Tail(pushed) ELSE pushed

\* a run of animate whose geometry update takes the points out of the trail as
\* it copies them
AnimateDrainsTrail(pos, points, line, c) ==
    With(LorenzStep(pos, c), LAMBDA next :
    With(PushTrail(points, next, c.trailLength), LAMBDA trail :
         <<next, <<>>, UpdateLine(line, trail)>>))

\* one run of animate under the controls c: <<position, points, line>>
Animate(pos, points, line, c) ==
    With(LorenzStep(pos, c), LAMBDA next :
    With(PushTrail(points, next, c.trailLength), LAMBDA trail :
         <<next, trail, UpdateLine(line, trail)>>))

LInit ==
    /\ controls = InitialControls
    /\ positionRef = InitialPosition
    /\ pointsRef = <<>>
    /\ lineRef = [size |-> 0, drawRange |-> 0]
    /\ animationRef = 0
    /\ lFrames = {}
    /\ lLife = "init"
    /\ lAppended = <<>>
    /\ lSinceClear = <<>>
    /\ lTicks = 0
    /\ lEdits = 0
    /\ lOp = "none"

\* an effect run that leaves the trail of the previous line in place
RebuildKeepsTrail(pos, pending, stored, c) ==
    With(Animate(pos, pointsRef, [size |-> 3 * c.trailLength, drawRange |-> 0], c),
         LAMBDA ran :
         LET kept == Cancel(pending, stored)
             id == FreshId(kept, stored)
         IN  <<ran[1], ran[2], ran[3], kept \cup {[id |-> id, controls |-> c]}, id>>)

\* an effect run that starts again from the seed position
RebuildFromSeed(pos, pending, stored, c) ==
    With(Animate(InitialPosition, <<>>, [size |-> 3 * c.trailLength, drawRange |-> 0], c),
         LAMBDA ran :
         LET kept == Cancel(pending, stored)
             id == FreshId(kept, stored)
         IN  <<ran[1], ran[2], ran[3], kept \cup {[id |-> id, controls |-> c]}, id>>)

\* the cleanup of the main effect, then the effect under controls c: a new line
\* for c.trailLength, an empty trail, and animate() called at once.
\* <<position, points, line, frames, animationRef>>
Rebuild(pos, pending, stored, c) ==
    With(Animate(pos, <<>>, [size |-> 3 * c.trailLength, drawRange |-> 0], c),
         LAMBDA ran :
         LET kept == Cancel(pending, stored)
             id == FreshId(kept, stored)
         IN  <<ran[1], ran[2], ran[3], kept \cup {[id |-> id, controls |-> c]}, id>>)

\* first commit: the effect runs (no request is pending, the cleanup of Rebuild
\* cancels nothing); under StrictMode in development it is cleaned up and runs again
LMount ==
    /\ lLife = "init"
    /\ \E strict \in BOOLEAN :
        \E once \in {Rebuild(positionRef, lFrames, animationRef, controls)} :
            \E r \in {IF strict THEN Rebuild(once[1], once[4], once[5], controls)
                      ELSE once} :
                /\ positionRef' = r[1]
                /\ pointsRef' = r[2]
                /\ lineRef' = r[3]
                /\ lFrames' = r[4]
                /\ animationRef' = r[5]
                /\ lAppended' = <<r[1]>>
                /\ lSinceClear' = <<r[1]>>
                /\ lTicks' = IF strict THEN 2 ELSE 1
    /\ lLife' = "mounted"
    /\ lOp' = "mount"
    /\ UNCHANGED <<controls, lEdits>>

\* a requested frame runs animate and requests the next frame for the same closure
LTick ==
    /\ lLife = "mounted"
    /\ lTicks < MaxLTicks
    /\ \E f \in lFrames :
        \E ran \in {Animate(positionRef, pointsRef, lineRef, f.controls)} :
            LET rest == lFrames \ {f}
                id == FreshId(rest, animationRef)
            IN  /\ positionRef' = ran[1]
                /\ pointsRef' = ran[2]
                /\ lineRef' = ran[3]
                /\ lFrames' = rest \cup {[f EXCEPT !.id = id]}
                /\ animationRef' = id
                /\ lAppended' = Append(lAppended, ran[1])
                /\ lSinceClear' = Append(lSinceClear, ran[1])
    /\ lTicks' = lTicks + 1
    /\ lOp' = "tick"
    /\ UNCHANGED <<controls, lLife, lEdits>>

\* a reset that returns the position and leaves the trail as it is
resetAttractorKeepsTrail ==
    /\ lLife = "mounted"
    /\ positionRef' = InitialPosition
    /\ lineRef' = IF lineRef.size > 0 THEN [lineRef EXCEPT !.drawRange = 0] ELSE lineRef
    /\ lAppended' = <<>>
    /\ lSinceClear' = <<>>
    /\ lOp' = "reset"
    /\ UNCHANGED <<controls, pointsRef, animationRef, lFrames, lLife, lTicks, lEdits>>

\* resetAttractor: the position returns to the seed, the trail and the draw
\* range are emptied
resetAttractor ==
    /\ lLife = "mounted"
    /\ positionRef' = InitialPosition
    /\ pointsRef' = <<>>
    /\ lineRef' = IF lineRef.size > 0 THEN [lineRef EXCEPT !.drawRange = 0] ELSE lineRef
    /\ lAppended' = <<>>
    /\ lSinceClear' = <<>>
    /\ lOp' = "reset"
    /\ UNCHANGED <<controls, animationRef, lFrames, lLife, lTicks, lEdits>>

\* the values the sliders are moved to
ControlInputs ==
    [speed |-> {Num(1, 10), Num(1, 1), Num(3, 1)},
     trailLength |-> 1..MaxTrail,
     sigma |-> {Num(5, 1), Num(10, 1), Num(20, 1)},
     rho |-> {Num(20, 1), Num(28, 1), Num(35, 1)},
     beta |-> {Num(1, 1), FDiv(Num(8, 1), Num(3, 1)), Num(4, 1)}]

\* setSpeed, setTrailLength, setSigma, setRho or setBeta with a new value, then
\* the render, the cleanup of the main effect and the effect again
LSetControl ==
    /\ lLife = "mounted"
    /\ lEdits < MaxEdits
    /\ lTicks < MaxLTicks
    /\ \E key \in DOMAIN ControlInputs :
        \E v \in ControlInputs[key] :
            /\ v # controls[key]
            /\ \E r \in {Rebuild(positionRef, lFrames, animationRef,
                                 [controls EXCEPT ![key] = v])} :
                   /\ controls' = [controls EXCEPT ![key] = v]
                   /\ positionRef' = r[1]
                   /\ pointsRef' = r[2]
                   /\ lineRef' = r[3]
                   /\ lFrames' = r[4]
                   /\ animationRef' = r[5]
                   /\ lAppended' = IF key = "trailLength" THEN <<r[1]>>
                                   ELSE Append(lAppended, r[1])
                   /\ lSinceClear' = <<r[1]>>
    /\ lTicks' = lTicks + 1
    /\ lEdits' = lEdits + 1
    /\ lOp' = "setControl"
    /\ UNCHANGED lLife

\* the component is removed: the cleanup of the main effect
LUnmount ==
    /\ lLife = "mounted"
    /\ lFrames' = Cancel(lFrames, animationRef)
    /\ lLife' = "unmounted"
    /\ lOp' = "unmount"
    /\ UNCHANGED <<controls, positionRef, pointsRef, lineRef, animationRef,
                   lAppended, lSinceClear, lTicks, lEdits>>

\* ------------------------------------------------------------------------
\* Bifurcation sampler (BifurcationDiagram, the useMemo computation)
\* ------------------------------------------------------------------------

\* index of the last growth-rate slice (1000 in the source, scaled down)
totalPoints == 3

VARIABLES
    bifParameters,      \* useState: minGrowthRate, maxGrowthRate, carryingCapacity,
                        \* initialPopulation, settlePeriods, samplePeriods
    bifPc,              \* position in the computation: "start", "settle", "sample",
                        \* "emit", "done"
    bifI,               \* i, the slice index
    bifT,               \* t, the counter of the running inner loop
    growthRate,         \* growthRate of the slice
    population,         \* population
    oscillationValues,  \* the Set of the slice, in insertion order
    data,               \* data, the points pushed so far
    dataSlice           \* history: for each point of data, the slice that pushed it

bifvars == <<bifParameters, bifPc, bifI, bifT, growthRate, population,
             oscillationValues, data, dataSlice>>

\* a step measured from zero instead of from minGrowthRate
StepSizeFromZero(params) ==
    FDiv(params.maxGrowthRate, Num(totalPoints, 1))

\* (maxGrowthRate - minGrowthRate) / totalPoints
StepSize(params) ==
    FDiv(FSub(params.maxGrowthRate, params.minGrowthRate), Num(totalPoints, 1))

\* a slice loop that stops one slice early
SliceLoopRunsExclusive(idx) == idx < totalPoints

\* the loop condition i <= totalPoints
SliceLoopRuns(idx) == idx <= totalPoints

\* a slice rate that runs one step ahead of its index
SliceGrowthRateOneAhead(idx, params) ==
    FAdd(params.minGrowthRate, FMul(Num(idx + 1, 1), StepSize(params)))

\* minGrowthRate + i * stepSize
SliceGrowthRate(idx, params) ==
    FAdd(params.minGrowthRate, FMul(Num(idx, 1), StepSize(params)))

\* inner loops that run one iteration more
InnerLoopRunsInclusive(count, periods) == FGe(periods, Num(count, 1))

\* the loop conditions t < settlePeriods and t < samplePeriods
InnerLoopRuns(count, periods) == FLt(Num(count, 1), periods)

\* a step that lost its factor population
BifLogisticNoFactor(pop, rate, capacity) ==
    MathMax(0, FMul(rate, FSub(Num(1, 1), FDiv(pop, capacity))))

\* population = growthRate * population * (1 - population / carryingCapacity);
\* population = Math.max(0, population)
BifLogistic(pop, rate, capacity) ==
    MathMax(0, FMul(FMul(rate, pop), FSub(Num(1, 1), FDiv(pop, capacity))))

\* Math.round(population * 100) / 100
RoundedPop(pop) == FDiv(MathRound(FMul(pop, Num(100, 1))), Num(100, 1))

\* Math.round(growthRate * 1000) / 1000
RoundedRate(rate) == FDiv(MathRound(FMul(rate, Num(1000, 1))), Num(1000, 1))

\* an array in place of the Set: every value is kept
SetAddAlways(values, v) == Append(values, v)

\* Set.prototype.add: a value already in the set is not added again
SetAdd(values, v) ==
    IF \E k \in 1..Len(values) : values[k] = v THEN values ELSE Append(values, v)

\* oscillationValues.forEach(value => data.push({growthRate: ..., population: value}))
EmitPoints(values, rate) ==
    [k \in 1..Len(values) |-> [growthRate |-> RoundedRate(rate), population |-> values[k]]]

BifIdle ==
    /\ bifPc = "start"
    /\ bifI = 0
    /\ bifT = 0
    /\ growthRate = 0
    /\ population = 0
    /\ oscillationValues = <<>>
    /\ data = <<>>
    /\ dataSlice = <<>>

\* the texts typed into the fields, as parsed by updateParameter
RateInputs == {0, Num(2, 1), Num(20004, 10000), Num(35, 10)}
CapacityInputs == {0, Num(10, 1)}
PopulationInputs == {0, Num(1, 1), Num(10, 1)}
SettleInputs == {0, Num(2, 1)}
SampleInputs == {0, Num(3, 2), Num(3, 1)}

BifInputs ==
    [minGrowthRate : RateInputs, maxGrowthRate : RateInputs,
     carryingCapacity : CapacityInputs, initialPopulation : PopulationInputs,
     settlePeriods : SettleInputs, samplePeriods : SampleInputs]

\* a slice head that carries the population of the previous slice on
EnterSliceKeepsPopulation(idx) ==
    IF SliceLoopRuns(idx)
    THEN /\ bifPc' = "settle"
         /\ growthRate' = SliceGrowthRate(idx, bifParameters)
         /\ population' = IF idx = 0 THEN bifParameters.initialPopulation ELSE population
    ELSE /\ bifPc' = "done"
         /\ UNCHANGED <<growthRate, population>>

\* the head of the slice loop: the next slice is set up, or the loop ends
EnterSlice(idx) ==
    IF SliceLoopRuns(idx)
    THEN /\ bifPc' = "settle"
         /\ growthRate' = SliceGrowthRate(idx, bifParameters)
         /\ population' = bifParameters.initialPopulation
    ELSE /\ bifPc' = "done"
         /\ UNCHANGED <<growthRate, population>>

BifBegin ==
    /\ bifPc = "start"
    /\ data' = <<>>
    /\ dataSlice' = <<>>
    /\ bifI' = 0
    /\ bifT' = 0
    /\ EnterSlice(0)
    /\ UNCHANGED <<bifParameters, oscillationValues>>

\* one iteration of the settle loop
BifSettle ==
    /\ bifPc = "settle"
    /\ InnerLoopRuns(bifT, bifParameters.settlePeriods)
    /\ population' = BifLogistic(population, growthRate, bifParameters.carryingCapacity)
    /\ bifT' = bifT + 1
    /\ UNCHANGED <<bifParameters, bifPc, bifI, growthRate, oscillationValues, data,
                   dataSlice>>

\* the settle loop ends: const oscillationValues = new Set()
BifSettled ==
    /\ bifPc = "settle"
    /\ ~InnerLoopRuns(bifT, bifParameters.settlePeriods)
    /\ bifPc' = "sample"
    /\ bifT' = 0
    /\ oscillationValues' = <<>>
    /\ UNCHANGED <<bifParameters, bifI, growthRate, population, data, dataSlice>>

\* one iteration of the sample loop
BifSample ==
    /\ bifPc = "sample"
    /\ InnerLoopRuns(bifT, bifParameters.samplePeriods)
    /\ LET pop == BifLogistic(population, growthRate, bifParameters.carryingCapacity)
       IN  /\ population' = pop
           /\ oscillationValues' = SetAdd(oscillationValues, RoundedPop(pop))
    /\ bifT' = bifT + 1
    /\ UNCHANGED <<bifParameters, bifPc, bifI, growthRate, data, dataSlice>>

\* the sample loop ends: the values of the slice are pushed and the next slice begins
BifEmit ==
    /\ bifPc = "sample"
    /\ ~InnerLoopRuns(bifT, bifParameters.samplePeriods)
    /\ data' = data \o EmitPoints(oscillationValues, growthRate)
    /\ dataSlice' = dataSlice \o [k \in 1..Len(oscillationValues) |-> bifI]
    /\ bifI' = bifI + 1
    /\ bifT' = 0
    /\ EnterSlice(bifI + 1)
    /\ UNCHANGED <<bifParameters, oscillationValues>>

\* ------------------------------------------------------------------------
\* Year-by-year logistic calculator (PopulationCalculator, calculatePopulation)
\* ------------------------------------------------------------------------

VARIABLES
    calcParameters,     \* useState: initialPopulation, growthRate, carryingCapacity, years
    calcPc,             \* position in calculatePopulation: "start", "loop", "done"
    year,               \* year, the loop counter
    currentPopulation,  \* currentPopulation
    calcData,           \* data, the local array
    populationData      \* useState: the published array

calcvars == <<calcParameters, calcPc, year, currentPopulation, calcData, populationData>>

\* a step that lost the "1 -" of its last factor
CalcLogisticNoComplement(pop, rate, capacity) ==
    MathMax(0, FMul(FMul(rate, pop), FDiv(pop, capacity)))

\* the growth form of the logistic step, which adds the growth to the population
CalcLogisticGrowthForm(pop, rate, capacity) ==
    MathMax(0, FAdd(pop, FMul(FMul(rate, pop), FSub(Num(1, 1), FDiv(pop, capacity)))))

\* a step without the clamp
CalcLogisticUnclamped(pop, rate, capacity) ==
    FMul(FMul(rate, pop), FSub(Num(1, 1), FDiv(pop, capacity)))

\* currentPopulation = growthRate * currentPopulation * (1 - currentPopulation / carryingCapacity);
\* currentPopulation = Math.max(0, currentPopulation)
CalcLogistic(pop, rate, capacity) ==
    MathMax(0, FMul(FMul(rate, pop), FSub(Num(1, 1), FDiv(pop, capacity))))

\* the loop condition year <= years
YearLoopRuns(y, years) == FGe(years, Num(y, 1))

CalcIdle ==
    /\ calcPc = "start"
    /\ year = 0
    /\ currentPopulation = 0
    /\ calcData = <<>>
    /\ populationData = <<>>

\* the texts typed into the fields, as parsed by updateParameter: from the
\* smallest positive number to the largest, and the defaults 2, 3.8, 1000, 50
CalcInputs ==
    [initialPopulation : {0, Num(1, Scale), Num(2, 1), Num(10, 1), MaxFloat \div 2,
                          MaxFloat},
     growthRate : {0, Num(4, 10), Num(38, 10), MaxFloat},
     carryingCapacity : {0, Num(1, 2), Num(10, 1), Num(1000, 1), MaxFloat},
     years : {0, Num(3, 1), Num(50, 1)}]

CalcBegin ==
    /\ calcPc = "start"
    /\ currentPopulation' = calcParameters.initialPopulation
    /\ calcData' = <<[year |-> 0, population |-> calcParameters.initialPopulation]>>
    /\ year' = 1
    /\ calcPc' = "loop"
    /\ UNCHANGED <<calcParameters, populationData>>

\* one iteration of the year loop
CalcYear ==
    /\ calcPc = "loop"
    /\ YearLoopRuns(year, calcParameters.years)
    /\ LET pop == CalcLogistic(currentPopulation, calcParameters.growthRate,
                               calcParameters.carryingCapacity)
       IN  /\ currentPopulation' = pop
           /\ calcData' = Append(calcData, [year |-> year, population |-> RoundedPop(pop)])
    /\ year' = year + 1
    /\ UNCHANGED <<calcParameters, calcPc, populationData>>

\* the loop ends: setPopulationData(data)
CalcFinish ==
    /\ calcPc = "loop"
    /\ ~YearLoopRuns(year, calcParameters.years)
    /\ populationData' = calcData
    /\ calcPc' = "done"
    /\ UNCHANGED <<calcParameters, year, currentPopulation, calcData>>

\* ------------------------------------------------------------------------
\* The number fields of the calculator and of the bifurcation diagram: an edit
\* calls updateParameter, and the render that follows computes again
\* ------------------------------------------------------------------------

VARIABLES
    fieldEdits,     \* history: edits of a field so far
    fieldInput      \* history: the field and the text of the last edit

fieldvars == <<fieldEdits, fieldInput>>

\* the texts a number field hands to updateParameter, each as what parseFloat
\* and parseInt make of it: "" (no number), "0", "0.5", "3", "-5", and "1e-400",
\* which parseFloat reads as 0 and parseInt, stopping at the e, as 1
FieldTexts ==
    {[float |-> NaN, int |-> NaN],
     [float |-> 0, int |-> 0],
     [float |-> Num(1, 2), int |-> 0],
     [float |-> Num(3, 1), int |-> Num(3, 1)],
     [float |-> 0 - Num(5, 1), int |-> 0 - Num(5, 1)],
     [float |-> 0, int |-> Num(1, 1)]}

\* a || b: a unless it is falsy (NaN or 0)
OrElse(a, b) == IF IsNaN(a) \/ a = 0 THEN b ELSE a

\* parseFloat(value) || parseInt(value) || 0
ParseFloatOrInt(text) == OrElse(text.float, OrElse(text.int, 0))

FieldIdle ==
    /\ fieldEdits = 0
    /\ fieldInput = <<>>

\* updateParameter(key, value) of the calculator; the new parameters make a new
\* calculatePopulation, which the effect calls
CalcUpdateParameter ==
    /\ calcPc = "done"
    /\ fieldEdits < MaxEdits
    /\ \E key \in DOMAIN calcParameters, text \in FieldTexts :
           /\ calcParameters' = [calcParameters EXCEPT ![key] = ParseFloatOrInt(text)]
           /\ fieldInput' = [key |-> key, text |-> text]
    /\ calcPc' = "start"
    /\ fieldEdits' = fieldEdits + 1
    /\ UNCHANGED <<year, currentPopulation, calcData, populationData>>

\* updateParameter(key, value) of the bifurcation diagram; the new parameters
\* make useMemo compute again in the render
BifUpdateParameter ==
    /\ bifPc = "done"
    /\ fieldEdits < MaxEdits
    /\ \E key \in DOMAIN bifParameters, text \in FieldTexts :
           /\ bifParameters' = [bifParameters EXCEPT ![key] = ParseOrZero(text.float)]
           /\ fieldInput' = [key |-> key, text |-> text]
    /\ bifPc' = "start"
    /\ fieldEdits' = fieldEdits + 1
    /\ UNCHANGED <<bifI, bifT, growthRate, population, oscillationValues, data,
                   dataSlice>>

\* ------------------------------------------------------------------------
\* The Brusselator step as a function: one call rungeKutta(x, y, dt, params),
\* as updateSystem makes it, on a state and parameters the simulation can hold
\* ------------------------------------------------------------------------

VARIABLES
    rkIn,           \* the arguments of the call: x, y, params
    rkOut,          \* the pair the call returned, <<>> before it returns
    rkPc            \* "call" before the call, "returned" after it

rkvars == <<rkIn, rkOut, rkPc>>

\* the parameters with every field cleared
ZeroParameters ==
    [B |-> 0, A |-> 0, k1 |-> 0, k2 |-> 0, k3 |-> 0, k4 |-> 0]

\* the values X and Y take: 0 after a clamp, the initial 1, values of a run,
\* the largest number, and the Infinity and NaN an overflowing run leaves
StepStates == {0, Num(1, 2), Num(1, 1), Num(32851, 10000), MaxFloat, PInf, NaN}

\* the parameters of a call: cleared, the initial ones, the ones resetParameters
\* sets, and edited ones
StepParameters ==
    {ZeroParameters, InitialParameters, [InitialParameters EXCEPT !.B = Num(5, 1)],
     [InitialParameters EXCEPT !.B = 0 - Num(100, 1)],
     [InitialParameters EXCEPT !.k3 = Num(1, 2)]}

RkInputs == [x : StepStates, y : StepStates, params : StepParameters]

DefaultRkInput == [x |-> Num(1, 1), y |-> Num(1, 1), params |-> InitialParameters]

RkIdle ==
    /\ rkOut = <<>>
    /\ rkPc = "call"

\* [state.X, state.Y] = rungeKutta(state.X, state.Y, dt, parameters)
RkApply ==
    /\ rkPc = "call"
    /\ rkOut' = rungeKutta(rkIn.x, rkIn.y, dt, rkIn.params)
    /\ rkPc' = "returned"
    /\ UNCHANGED rkIn

\* ------------------------------------------------------------------------
\* Specifications.  The four components share no state; a run follows one of
\* them, named by component, and the others stay as constructed.
\* ------------------------------------------------------------------------

VARIABLE component

vars == <<component, bvars, lvars, bifvars, calcvars, rkvars, fieldvars>>

\* the parameters a component that is not followed keeps: values within the
\* model's number range standing for the useState defaults
DefaultBifParameters ==
    [minGrowthRate |-> Num(2, 1), maxGrowthRate |-> Num(35, 10),
     carryingCapacity |-> Num(10, 1), initialPopulation |-> Num(1, 1),
     settlePeriods |-> Num(2, 1), samplePeriods |-> Num(3, 1)]

DefaultCalcParameters ==
    [initialPopulation |-> Num(2, 1), growthRate |-> Num(38, 10),
     carryingCapacity |-> Num(1000, 1), years |-> Num(3, 1)]

InitOf(components) ==
    /\ component \in components
    /\ BInit
    /\ LInit
    /\ BifIdle
    /\ CalcIdle
    /\ RkIdle
    /\ FieldIdle
    /\ rkIn \in (IF component = "rungeKutta" THEN RkInputs ELSE {DefaultRkInput})
    /\ bifParameters \in (IF component = "bifurcation" THEN BifInputs
                          ELSE {DefaultBifParameters})
    /\ calcParameters \in (IF component = "calculator" THEN CalcInputs
                           ELSE {DefaultCalcParameters})

OnlyB(A) ==
    /\ component = "brusselator"
    /\ A
    /\ UNCHANGED <<component, lvars, bifvars, calcvars, rkvars, fieldvars>>

OnlyL(A) ==
    /\ component = "lorenz"
    /\ A
    /\ UNCHANGED <<component, bvars, bifvars, calcvars, rkvars, fieldvars>>

\* "bifurcation" is one computation on parameters the fields can hold,
\* "bifurcationFields" the diagram from its first render through edits
OnlyBif(A) ==
    /\ component \in {"bifurcation", "bifurcationFields"}
    /\ A
    /\ UNCHANGED <<component, bvars, lvars, calcvars, rkvars, fieldvars>>

\* "calculator" is one run of calculatePopulation on parameters the fields can
\* hold, "calculatorFields" the calculator from its mount through edits
OnlyCalc(A) ==
    /\ component \in {"calculator", "calculatorFields"}
    /\ A
    /\ UNCHANGED <<component, bvars, lvars, bifvars, rkvars, fieldvars>>

OnlyRk(A) ==
    /\ component = "rungeKutta"
    /\ A
    /\ UNCHANGED <<component, bvars, lvars, bifvars, calcvars, fieldvars>>

OnlyCalcFields(A) ==
    /\ component = "calculatorFields"
    /\ A
    /\ UNCHANGED <<component, bvars, lvars, bifvars, rkvars>>

OnlyBifFields(A) ==
    /\ component = "bifurcationFields"
    /\ A
    /\ UNCHANGED <<component, bvars, lvars, calcvars, rkvars>>

NextB ==
    \/ OnlyB(BMount)
    \/ OnlyB(BTick)
    \/ OnlyB(BResetSimulation)
    \/ OnlyB(BResetParameters)
    \/ OnlyB(BTogglePause)
    \/ OnlyB(BUpdateParameter)
    \/ OnlyB(BUnmount)

NextL ==
    \/ OnlyL(LMount)
    \/ OnlyL(LTick)
    \/ OnlyL(resetAttractor)
    \/ OnlyL(LSetControl)
    \/ OnlyL(LUnmount)

NextBif ==
    \/ OnlyBif(BifBegin)
    \/ OnlyBif(BifSettle)
    \/ OnlyBif(BifSettled)
    \/ OnlyBif(BifSample)
    \/ OnlyBif(BifEmit)

NextCalc ==
    \/ OnlyCalc(CalcBegin)
    \/ OnlyCalc(CalcYear)
    \/ OnlyCalc(CalcFinish)

NextRk == OnlyRk(RkApply)

NextFields ==
    \/ OnlyCalcFields(CalcUpdateParameter)
    \/ OnlyBifFields(BifUpdateParameter)

Init ==
    InitOf({"brusselator", "lorenz", "bifurcation", "calculator", "rungeKutta",
            "calculatorFields", "bifurcationFields"})
Next == NextB \/ NextL \/ NextBif \/ NextCalc \/ NextRk \/ NextFields
Spec == Init /\ [][Next]_vars

\* the Brusselator alone
SpecB == InitOf({"brusselator"}) /\ [][NextB]_vars

\* the two simulations with trajectory buffers
NextTraj == NextB \/ NextL
SpecTraj == InitOf({"brusselator", "lorenz"}) /\ [][NextTraj]_vars

\* the bifurcation sampler alone
SpecBif == InitOf({"bifurcation"}) /\ [][NextBif]_vars

\* the Brusselator step alone
SpecRk == InitOf({"rungeKutta"}) /\ [][NextRk]_vars

\* the three components with number fields, from their mount through edits
NextEdited == NextB \/ NextBif \/ NextCalc \/ NextFields
SpecFields ==
    InitOf({"brusselator", "calculatorFields", "bifurcationFields"}) /\ [][NextEdited]_vars

\* the two users of the logistic step
NextLogistic == NextBif \/ NextCalc
SpecLogistic == InitOf({"bifurcation", "calculator"}) /\ [][NextLogistic]_vars

\* ------------------------------------------------------------------------
\* Claims
\* ------------------------------------------------------------------------

\* the last n entries of a sequence, oldest first
LastN(seq, n) == SubSeq(seq, Len(seq) - n + 1, Len(seq))

PhaseOf(points) == [k \in 1..Len(points) |-> [x |-> points[k].x, y |-> points[k].y]]

\* the Brusselator buffers hold exactly the last maxPoints points pushed since the
\* last reset, once more than maxPoints were pushed
BrusselatorBuffersFull ==
    Len(bAppended) > maxPoints =>
        /\ systemState.timePoints = LastN(bAppended, maxPoints)
        /\ systemState.phasePoints = PhaseOf(LastN(bAppended, maxPoints))

\* C1 as stated: after N > C consecutive unpaused ticks with no reset or capacity
\* change in between, each trajectory buffer has length exactly C and holds the
\* last C appended states, oldest first (for the Lorenz trail N counts the ticks
\* since the last resetAttractor or change of trailLength).
C1_AsStated ==
    /\ BrusselatorBuffersFull
    /\ Len(lAppended) > controls.trailLength =>
           pointsRef = LastN(lAppended, controls.trailLength)

\* C1 amended: the same, where for the Lorenz trail N counts the ticks since the
\* trail was last emptied, which every run of the main effect does (a change of
\* speed, sigma, rho or beta as well as of trailLength) besides resetAttractor.
C1_BuffersHoldLastC ==
    /\ BrusselatorBuffersFull
    /\ Len(lSinceClear) > controls.trailLength =>
           /\ Len(pointsRef) = controls.trailLength
           /\ pointsRef = LastN(lSinceClear, controls.trailLength)

\* a Lorenz trail that overflowed after a control other than trailLength changed
C1_Witness ==
    /\ lEdits > 0
    /\ Len(lAppended) > Len(lSinceClear)
    /\ Len(lSinceClear) > controls.trailLength

\* a Brusselator run that pushed more points than the buffers hold
C1_WitnessBrusselator == Len(bAppended) > maxPoints /\ bOp = "tick"

\* C2: in every reachable state each trajectory buffer is no longer than its
\* current capacity: maxPoints for phasePoints and timePoints, the current
\* trailLength for the Lorenz trail.
C2_LengthWithinCapacity ==
    /\ Len(systemState.phasePoints) <= maxPoints
    /\ Len(systemState.timePoints) <= maxPoints
    /\ Len(pointsRef) <= controls.trailLength

\* a full Lorenz trail after trailLength was lowered and frames ran
C2_Witness ==
    /\ controls.trailLength < InitialTrailLength
    /\ lOp = "tick"
    /\ Len(lSinceClear) > controls.trailLength
    /\ Len(pointsRef) = controls.trailLength

\* every number the Brusselator holds: the state and the stored points
BrusselatorValues ==
    {systemState.X, systemState.Y}
    \cup {systemState.phasePoints[k].x : k \in 1..Len(systemState.phasePoints)}
    \cup {systemState.phasePoints[k].y : k \in 1..Len(systemState.phasePoints)}
    \cup {systemState.timePoints[k].x : k \in 1..Len(systemState.timePoints)}
    \cup {systemState.timePoints[k].y : k \in 1..Len(systemState.timePoints)}

\* C3 as stated: in every reachable state X >= 0 and Y >= 0, and every stored
\* point has x >= 0 and y >= 0.
C3_AsStated == \A v \in BrusselatorValues : FGe(v, 0)

\* C3 amended: no component of the state or of a stored point is ever < 0: each
\* is >= 0 or is NaN (a step whose intermediates overflow returns NaN, which
\* Math.max(0, NaN) passes on).
C3_NeverNegative == \A v \in BrusselatorValues : ~FLt(v, 0) /\ (FGe(v, 0) \/ IsNaN(v))

\* a step whose unclamped result was negative: X was clamped to 0 under a
\* negative feed A
C3_Witness ==
    /\ bOp = "tick"
    /\ ~isPaused
    /\ FLt(parameters.A, 0)
    /\ systemState.X = 0
    /\ Len(systemState.phasePoints) > 0

\* the simulation fields of systemState (all but the frame handle)
SimFields(state) ==
    <<state.X, state.Y, state.time, state.phasePoints, state.timePoints>>

\* C4: while the Brusselator is paused, a tick leaves X, Y, time, phasePoints
\* and timePoints unchanged.
C4_PausedTickIdle ==
    [][(isPaused /\ bOp' = "tick") => SimFields(systemState') = SimFields(systemState)]_vars

\* a tick ran while paused, on a simulation that had advanced
C4_Witness ==
    /\ isPaused
    /\ bOp = "tick"
    /\ systemState.time > 0
    /\ Len(systemState.timePoints) > 0

InitialSimFields == <<Num(1, 1), Num(1, 1), 0, <<>>, <<>>>>

\* C5: resetSimulation, running or paused, sets X = 1, Y = 1, time = 0, empties
\* both buffers and leaves isPaused unchanged; and while the simulation stays
\* paused these initial values persist.
C5_Reset ==
    [][/\ bOp' = "reset" =>
              /\ SimFields(systemState') = InitialSimFields
              /\ isPaused' = isPaused
       /\ (isPaused /\ isPaused' /\ SimFields(systemState) = InitialSimFields) =>
              SimFields(systemState') = InitialSimFields]_vars

\* a reset issued while paused that discarded stored points
C5_Witness ==
    /\ bOp = "reset"
    /\ isPaused
    /\ bDropped > 0
    /\ SimFields(systemState) = InitialSimFields

\* the points of data pushed by slice idx
PointsOfSlice(idx) == {k \in 1..Len(data) : dataSlice[k] = idx}

MinAboveMax == FGt(bifParameters.minGrowthRate, bifParameters.maxGrowthRate)

C7_AsStated ==
    \A j, k \in 1..Len(data) : j # k => data[j] # data[k]

\* C7 amended: no two points emitted by the same slice have the same
\* population; points of different slices coincide when the slices' growth
\* rates round to the same value and their sets share a population.
C7_DistinctWithinSlice ==
    \A j, k \in 1..Len(data) :
        (j # k /\ dataSlice[j] = dataSlice[k]) => data[j].population # data[k].population

\* a finished computation whose slices deduplicated their samples and whose
\* output repeats a point across slices
C7_Witness ==
    /\ bifPc = "done"
    /\ bifParameters.samplePeriods = Num(3, 1)
    /\ \E idx \in 0..totalPoints :
           /\ Cardinality(PointsOfSlice(idx)) = 2
    /\ \E j, k \in 1..Len(data) : dataSlice[j] # dataSlice[k] /\ data[j] = data[k]

\* C8 as stated: every slice emits at most samplePeriods points.
C8_AsStated ==
    \A idx \in 0..totalPoints :
        FGe(bifParameters.samplePeriods, Num(Cardinality(PointsOfSlice(idx)), 1))

\* the least whole number of iterations that reaches periods (0 when periods <= 0)
WholePeriods(periods) ==
    IF periods <= 0 THEN 0 ELSE (periods + Scale - 1) \div Scale

\* C8 amended: every slice emits at most as many points as the sample loop
\* has iterations: samplePeriods rounded up to a whole number, and none when
\* samplePeriods <= 0.
C8_AtMostSampleIterations ==
    \A idx \in 0..totalPoints :
        Cardinality(PointsOfSlice(idx)) <= WholePeriods(bifParameters.samplePeriods)

\* a slice that emitted two points under samplePeriods = 1.5
C8_Witness ==
    /\ bifPc = "done"
    /\ bifParameters.samplePeriods = Num(3, 2)
    /\ \E idx \in 0..totalPoints : Cardinality(PointsOfSlice(idx)) = 2

MinEqualsMax == bifParameters.minGrowthRate = bifParameters.maxGrowthRate

\* C9 as stated: when minGrowthRate == maxGrowthRate every emitted point has
\* growthRate equal to minGrowthRate.
C9_AsStated ==
    MinEqualsMax =>
        \A k \in 1..Len(data) : data[k].growthRate = bifParameters.minGrowthRate

\* C9 amended: when minGrowthRate == maxGrowthRate every emitted point has
\* growthRate equal to minGrowthRate rounded to three decimals: a multiple of
\* 0.001 no further than 0.0005 from minGrowthRate.
C9_RateIsRoundedMin ==
    MinEqualsMax =>
        \A k \in 1..Len(data) :
            /\ data[k].growthRate % (Scale \div 1000) = 0
            /\ 2 * Abs(data[k].growthRate - bifParameters.minGrowthRate) <= Scale \div 1000

\* a finished computation over the single rate 2.0004, emitted as 2
C9_Witness ==
    /\ MinEqualsMax
    /\ bifPc = "done"
    /\ bifParameters.minGrowthRate = Num(20004, 10000)
    /\ Len(data) > totalPoints
    /\ \A k \in 1..Len(data) : data[k].growthRate = Num(2, 1)

C10_WitnessCalculator ==
    /\ calcPc = "done"
    /\ calcParameters.initialPopulation = 0
    /\ calcParameters.growthRate # 0
    /\ FGt(calcParameters.carryingCapacity, 0)
    /\ Len(populationData) = 4
    /\ \A k \in 1..Len(populationData) : populationData[k].population = 0

\* the populations published for the years >= 1
LaterYears == {calcData[k].population : k \in 2..Len(calcData)}

ZeroRate ==
    /\ calcParameters.growthRate = 0
    /\ FGt(calcParameters.carryingCapacity, 0)

\* C11 as stated: with growthRate == 0 and K > 0, every entry of the
\* year-by-year output for the years >= 1 is 0, for any initial population.
C11_AsStated == ZeroRate => LaterYears \subseteq {0}

\* C11 amended: with growthRate == 0 and K > 0, every entry of the year-by-year
\* output for the years >= 1 is 0, for any initial population P whose quotient
\* P / K is finite (when P / K overflows, 0 * P * (1 - Infinity) is NaN).
C11_ZeroRateGivesZero ==
    (ZeroRate /\ IsFinite(FDiv(calcParameters.initialPopulation,
                               calcParameters.carryingCapacity)))
        => LaterYears \subseteq {0}

\* a finished run at growth rate 0 from a non-zero population
C11_Witness ==
    /\ calcPc = "done"
    /\ ZeroRate
    /\ calcParameters.initialPopulation = Num(10, 1)
    /\ Len(populationData) = 4
    /\ \A k \in 2..Len(populationData) : populationData[k].population = 0

\* C12 as stated: a Brusselator RK4 step with A = 0, B = 0 and
\* k1 = k2 = k3 = k4 = 0 returns the input state (X, Y) unchanged.
C12_AsStated ==
    (rkPc = "returned" /\ rkIn.params = ZeroParameters) => rkOut = <<rkIn.x, rkIn.y>>

\* C12 amended: a Brusselator RK4 step with A = 0, B = 0 and
\* k1 = k2 = k3 = k4 = 0 on a finite state (X, Y) returns (X, Y) unchanged; on
\* a state with an infinite component the derivatives are 0 * Infinity = NaN
\* and the step returns (NaN, NaN).
C12_ZeroDerivativeStep ==
    (/\ rkPc = "returned"
     /\ rkIn.params = ZeroParameters
     /\ IsFinite(rkIn.x)
     /\ IsFinite(rkIn.y)) => rkOut = <<rkIn.x, rkIn.y>>

\* a zero-derivative step returned from a state away from (0, 0) and from (1, 1)
C12_Witness ==
    /\ rkPc = "returned"
    /\ rkIn.params = ZeroParameters
    /\ rkIn.x = Num(32851, 10000)
    /\ rkIn.y = Num(1, 2)
    /\ rkOut = <<Num(32851, 10000), Num(1, 2)>>

\* the buffers a single push of p, with at most one eviction of the oldest
\* entry, makes of points
OnePush(points, p) == {Append(points, p), Tail(Append(points, p))}

\* C14: each tick of a running simulation performs exactly one state advance
\* and exactly one append to each attached trajectory buffer (Lorenz: one Euler
\* step and one push onto the trail; Brusselator when not paused: one RK4 step,
\* time advanced by dt once, one push onto phasePoints and one onto
\* timePoints), and when it ends exactly one next tick is scheduled.
C14_OneAdvanceOneAppend ==
    [][/\ (bOp' = "tick" /\ ~isPaused) =>
              /\ systemState'.time = FAdd(systemState.time, dt)
              /\ \E f \in frames :
                     <<systemState'.X, systemState'.Y>> =
                         rungeKutta(systemState.X, systemState.Y, dt, f.parameters)
              /\ systemState'.phasePoints \in
                     OnePush(systemState.phasePoints,
                             [x |-> systemState'.X, y |-> systemState'.Y])
              /\ systemState'.timePoints \in
                     OnePush(systemState.timePoints,
                             [time |-> systemState'.time, x |-> systemState'.X,
                              y |-> systemState'.Y])
              /\ Cardinality(frames') = 1
       /\ lOp' = "tick" =>
              /\ \E f \in lFrames : positionRef' = LorenzStep(positionRef, f.controls)
              /\ pointsRef' \in OnePush(pointsRef, positionRef')
              /\ Cardinality(lFrames') = 1]_vars

\* a third unpaused Brusselator tick, with the next one scheduled
C14_Witness ==
    /\ bOp = "tick"
    /\ ~isPaused
    /\ Len(bAppended) = 3
    /\ Len(systemState.timePoints) = 3
    /\ systemState.time = 3 * dt
    /\ Cardinality(frames) = 1

\* a Lorenz tick on a full trail, with the next one scheduled
C14_WitnessLorenz ==
    /\ lOp = "tick"
    /\ Len(lSinceClear) > controls.trailLength
    /\ Len(pointsRef) = controls.trailLength
    /\ Cardinality(lFrames) = 1

\* C15: after a parameter is changed (Brusselator A, B, k1..k4; Lorenz sigma,
\* rho, beta, speed), every tick that runs computes its step with the current
\* parameter values, never with the ones its predecessor's closure captured;
\* the run of animate that the Lorenz effect makes on the change uses the new
\* values as well.
C15_TickUsesCurrentParameters ==
    [][/\ bOp' = "tick" =>
              SimFields(systemState') =
                  SimFields(updateSystem(systemState, isPaused, parameters))
       /\ lOp' = "tick" => positionRef' = LorenzStep(positionRef, controls)
       /\ lOp' = "setControl" => positionRef' = LorenzStep(positionRef, controls')]_vars

\* an unpaused Brusselator tick that ran after a parameter was changed
C15_Witness ==
    /\ bOp = "tick"
    /\ ~isPaused
    /\ bEdits > 0
    /\ parameters.k3 = Num(1, 2)
    /\ Len(bAppended) > 0

\* a Lorenz tick that ran after sigma was changed
C15_WitnessLorenz ==
    /\ lOp = "tick"
    /\ lEdits > 0
    /\ controls.sigma # InitialControls.sigma

\* C16: for each mounted simulation component at most one animation-frame tick
\* is pending at any time, across every interleaving of ticks, pause toggles,
\* parameter changes, resets and effect cleanup and re-run; after unmount none
\* is pending.
C16_OneLoopInFlight ==
    /\ Cardinality(frames) <= 1
    /\ Cardinality(lFrames) <= 1
    /\ bLife = "unmounted" => frames = {}
    /\ lLife = "unmounted" => lFrames = {}

\* the effect ran again on a simulation that had ticked: one frame is pending,
\* requested by the new effect run
C16_Witness ==
    /\ bOp \in {"togglePause", "updateParameter"}
    /\ Len(bAppended) > 1
    /\ Cardinality(frames) = 1
    /\ \A f \in frames : f.id = systemState.animationId /\ f.parameters = parameters

\* a Lorenz component unmounted after ticks and a control change
C16_WitnessUnmounted ==
    /\ lLife = "unmounted"
    /\ lEdits > 0
    /\ Len(lSinceClear) > 1
    /\ lFrames = {}

\* a step of the year loop
YearStep == calcPc = "loop" /\ year' = year + 1

\* 0 < growthRate < 4, K > 0 and the population entering the step strictly
\* between 0 and K
InsideLogisticRange ==
    /\ FGt(calcParameters.growthRate, 0)
    /\ FLt(calcParameters.growthRate, Num(4, 1))
    /\ FGt(calcParameters.carryingCapacity, 0)
    /\ FGt(currentPopulation, 0)
    /\ FLt(currentPopulation, calcParameters.carryingCapacity)

\* r = 3.8, K = 1000, P0 = 2, 50 years
Scenario ==
    calcParameters = [initialPopulation |-> Num(2, 1), growthRate |-> Num(38, 10),
                      carryingCapacity |-> Num(1000, 1), years |-> Num(50, 1)]

\* r * P * (1 - P / K), as the numbers of the program compute it
Recurrence(pop) ==
    FMul(FMul(calcParameters.growthRate, pop),
         FSub(Num(1, 1), FDiv(pop, calcParameters.carryingCapacity)))

C18_SeedAndReset ==
    [][/\ lLife = "init" => positionRef = InitialPosition
       /\ lOp' = "reset" => (positionRef' = InitialPosition /\ pointsRef' = <<>>)
       /\ (lOp = "reset" /\ lOp' # "reset") =>
              \/ (pointsRef' = <<>> /\ positionRef' = InitialPosition)
              \/ pointsRef' = <<LorenzStep(InitialPosition, controls')>>]_vars

\* the first tick after a reset that discarded a trail: the trail is that one point
C18_Witness ==
    /\ lOp = "tick"
    /\ lTicks >= 3
    /\ controls.trailLength > 1
    /\ lAppended = <<LorenzStep(InitialPosition, controls)>>
    /\ pointsRef = lAppended

\* sigma * (y - x) * h, (x * (rho - z) - y) * h and (x * y - beta * z) * h with
\* h = 0.01 * speed, all three from the position pos
EulerIncrement(pos, c) ==
    [x |-> FMul(FMul(c.sigma, FSub(pos.y, pos.x)), FMul(Num(1, 100), c.speed)),
     y |-> FMul(FSub(FMul(pos.x, FSub(c.rho, pos.z)), pos.y), FMul(Num(1, 100), c.speed)),
     z |-> FMul(FSub(FMul(pos.x, pos.y), FMul(c.beta, pos.z)), FMul(Num(1, 100), c.speed))]

\* C19: one Lorenz tick computes dx, dy and dz from the position as it was
\* before the tick, with h = 0.01 * speed, and the new position is the old one
\* plus (dx, dy, dz), unclamped.
C19_SimultaneousEuler ==
    [][lOp' = "tick" =>
         /\ positionRef'.x = FAdd(positionRef.x, EulerIncrement(positionRef, controls).x)
         /\ positionRef'.y = FAdd(positionRef.y, EulerIncrement(positionRef, controls).y)
         /\ positionRef'.z = FAdd(positionRef.z, EulerIncrement(positionRef, controls).z)]_vars

\* a tick at speed 3 away from the seed: z has fallen below 1, y has risen above it
C19_Witness ==
    /\ lOp = "tick"
    /\ controls.speed = Num(3, 1)
    /\ FLt(positionRef.z, Num(1, 1))
    /\ FGt(positionRef.y, Num(1, 1))
    /\ Len(lSinceClear) > 1

\* f(X, Y) = (k1*A - k2*B*X + k3*X*X*Y - k4*X, k2*B*X - k3*X*X*Y)
ReferenceF(x, y, p) ==
    <<FSub(FAdd(FSub(FMul(p.k1, p.A), FMul(FMul(p.k2, p.B), x)),
                FMul(FMul(FMul(p.k3, x), x), y)),
           FMul(p.k4, x)),
      FSub(FMul(FMul(p.k2, p.B), x), FMul(FMul(FMul(p.k3, x), x), y))>>

\* f at the state displaced by step * s, each component by its own component of s
ReferenceStage(x, y, step, s, p) ==
    ReferenceF(FAdd(x, FMul(step, s[1])), FAdd(y, FMul(step, s[2])), p)

\* max(0, old + (h / 6) * (s1 + 2 * s2 + 2 * s3 + s4)) for one component
ReferenceResult(old, h, s1, s2, s3, s4) ==
    MathMax(0, FAdd(old, FMul(FDiv(h, Num(6, 1)),
                              FAdd(FAdd(FAdd(s1, FMul(Num(2, 1), s2)),
                                        FMul(Num(2, 1), s3)), s4))))

\* the classical RK4 step of f with step h
ReferenceRK4(x, y, h, p) ==
    With(ReferenceF(x, y, p), LAMBDA s1 :
    With(ReferenceStage(x, y, FDiv(h, Num(2, 1)), s1, p), LAMBDA s2 :
    With(ReferenceStage(x, y, FDiv(h, Num(2, 1)), s2, p), LAMBDA s3 :
    With(ReferenceStage(x, y, h, s3, p), LAMBDA s4 :
         <<ReferenceResult(x, h, s1[1], s2[1], s3[1], s4[1]),
           ReferenceResult(y, h, s1[2], s2[2], s3[2], s4[2])>>))))

\* C20: the Brusselator step equals the classical RK4 reference with h = 0.01:
\* four stage derivatives of f at the state, at state + h/2 * stage1, at
\* state + h/2 * stage2 and at state + h * stage3, and per component the result
\* max(0, old + (h/6) * (s1 + 2*s2 + 2*s3 + s4)).
C20_StepIsClassicalRK4 ==
    rkPc = "returned" => rkOut = ReferenceRK4(rkIn.x, rkIn.y, Num(1, 100), rkIn.params)

\* the first step of the default run: from (1, 1), X falls and Y rises
C20_Witness ==
    /\ rkPc = "returned"
    /\ rkIn = DefaultRkInput
    /\ FGt(rkOut[1], Num(9, 10))
    /\ FLt(rkOut[1], Num(1, 1))
    /\ FGt(rkOut[2], Num(1, 1))
    /\ FLt(rkOut[2], Num(11, 10))

\* the n-th iterate of the unrounded logistic recurrence from pop
RECURSIVE Iterate(_, _, _, _)
Iterate(n, pop, rate, capacity) ==
    IF n = 0 THEN pop
    ELSE Iterate(n - 1, MathMax(0, FMul(FMul(rate, pop),
                                        FSub(Num(1, 1), FDiv(pop, capacity)))),
                 rate, capacity)

\* the populations slice idx emitted
EmittedOfSlice(idx) == {data[k].population : k \in PointsOfSlice(idx)}

\* the two-decimal roundings of the iterates numbered in range, for the growth
\* rate of slice idx, started from initialPopulation
RoundedIterates(idx, range) ==
    {RoundedPop(Iterate(n, bifParameters.initialPopulation,
                        FAdd(bifParameters.minGrowthRate,
                             FMul(Num(idx, 1),
                                  FDiv(FSub(bifParameters.maxGrowthRate,
                                            bifParameters.minGrowthRate),
                                       Num(totalPoints, 1)))),
                        bifParameters.carryingCapacity)) : n \in range}

\* the whole numbers n with settlePeriods + 1 <= n <= settlePeriods + samplePeriods
StatedRange ==
    {n \in 1..(WholePeriods(bifParameters.settlePeriods)
                   + WholePeriods(bifParameters.samplePeriods)) :
        /\ FGe(Num(n, 1), FAdd(bifParameters.settlePeriods, Num(1, 1)))
        /\ FGe(FAdd(bifParameters.settlePeriods, bifParameters.samplePeriods), Num(n, 1))}

\* the iterations the sample loop makes, numbered from the start of the slice
LoopRange ==
    (WholePeriods(bifParameters.settlePeriods) + 1) ..
        (WholePeriods(bifParameters.settlePeriods)
             + WholePeriods(bifParameters.samplePeriods))

\* C21 as stated: the set of populations emitted for a slice is exactly the set
\* of two-decimal roundings of the iterates settlePeriods + 1 ..
\* settlePeriods + samplePeriods of the unrounded recurrence started from
\* initialPopulation.
C21_AsStated ==
    bifPc = "done" =>
        \A idx \in 0..totalPoints : EmittedOfSlice(idx) = RoundedIterates(idx, StatedRange)

\* C21 amended: every slice starts again from initialPopulation, and the set of
\* populations it emits is exactly the set of two-decimal roundings of the
\* iterates s + 1 .. s + n of the unrounded recurrence started from
\* initialPopulation, where s and n are the numbers of iterations the settle
\* and sample loops make: settlePeriods and samplePeriods rounded up to whole
\* numbers, 0 when not positive.  The set depends on the slice's growth rate
\* and the parameters only, not on any other slice.
C21_SliceIsItsOwnRun ==
    /\ [][bifPc' = "settle" /\ bifT' = 0 =>
              population' = bifParameters.initialPopulation]_vars
    /\ [](bifPc = "done" =>
              \A idx \in 0..totalPoints :
                  EmittedOfSlice(idx) = RoundedIterates(idx, LoopRange))

\* a finished sweep with two settle and three sample iterations a slice, whose
\* last slice emitted other populations than its first
C21_Witness ==
    /\ bifPc = "done"
    /\ bifParameters.settlePeriods = Num(2, 1)
    /\ bifParameters.samplePeriods = Num(3, 1)
    /\ bifParameters.initialPopulation = Num(1, 1)
    /\ Cardinality(EmittedOfSlice(0)) >= 2
    /\ EmittedOfSlice(totalPoints) # EmittedOfSlice(0)
    /\ ~(NaN \in EmittedOfSlice(totalPoints))

\* minGrowthRate + idx * (maxGrowthRate - minGrowthRate) / totalPoints
EvenlySpaced(idx) ==
    FAdd(bifParameters.minGrowthRate,
         FMul(Num(idx, 1),
              FDiv(FSub(bifParameters.maxGrowthRate, bifParameters.minGrowthRate),
                   Num(totalPoints, 1))))

\* a slice is being computed
InSlice == bifPc \in {"settle", "sample"}

MinAtMostMax == FGe(bifParameters.maxGrowthRate, bifParameters.minGrowthRate)

\* totalPoints + 1 slices are computed, one for each index 0..totalPoints, slice
\* idx at the evenly spaced rate EvenlySpaced(idx), the first at minGrowthRate
SlicesEvenlySpaced ==
    /\ InSlice => (bifI \in 0..totalPoints /\ growthRate = EvenlySpaced(bifI))
    /\ (InSlice /\ bifI = 0) => growthRate = bifParameters.minGrowthRate
    /\ bifPc = "done" =>
           /\ bifI = totalPoints + 1
           /\ \A k \in 1..Len(data) :
                  /\ dataSlice[k] \in 0..totalPoints
                  /\ data[k].growthRate = RoundedRate(EvenlySpaced(dataSlice[k]))
           /\ FGt(bifParameters.samplePeriods, 0) =>
                  \A idx \in 0..totalPoints : PointsOfSlice(idx) # {}

LorenzSim == <<positionRef, pointsRef>>

\* a frame leaves the simulation as its step left it: the Brusselator fields are
\* those updateSystem returned, whatever drawPhase and drawTimeSeries drew from
\* them; the Lorenz position and trail are the stepped position and the trail
\* with that position pushed, whatever the geometry update copied
RenderingOnlyReads ==
    /\ bOp' = "tick" =>
           \E f \in frames :
               /\ SimFields(systemState') =
                      SimFields(updateSystem(systemState, f.isPaused, f.parameters))
               /\ bCanvas'.phase = Len(systemState'.phasePoints) - 1
                      \/ (bCanvas'.phase = 0 /\ Len(systemState'.phasePoints) < 2)
               /\ bCanvas'.time = Len(systemState'.timePoints)
                      \/ (bCanvas'.time = 0 /\ Len(systemState'.timePoints) < 2)
    /\ lOp' = "tick" =>
           \E f \in lFrames :
               /\ positionRef' = LorenzStep(positionRef, f.controls)
               /\ pointsRef' \in OnePush(pointsRef, positionRef')
               /\ Len(pointsRef') > 1 => lineRef'.drawRange = Len(pointsRef')

\* C23 as stated: the drawings of the Brusselator and the geometry update of
\* the Lorenz tick leave the simulation state and every trajectory buffer
\* unchanged; only the tick step (the first one made at the mount included)
\* and the reset operations change them.
C23_AsStated ==
    [][/\ RenderingOnlyReads
       /\ SimFields(systemState') # SimFields(systemState) =>
              bOp' \in {"tick", "reset", "resetParameters"}
       /\ LorenzSim' # LorenzSim => lOp' \in {"mount", "tick", "reset"}]_vars

\* C23 amended: the drawings of the Brusselator and the geometry update of the
\* Lorenz tick leave the simulation state and every trajectory buffer
\* unchanged.  The Brusselator state and buffers change only in a tick and in
\* resetSimulation (which resetParameters calls); the Lorenz position and
\* trail change only in a tick, in resetAttractor and in a run of the main
\* effect, at the mount and after every change of a control, which empties the
\* trail and makes one tick step at once.
C23_RenderingOnlyReads ==
    [][/\ RenderingOnlyReads
       /\ SimFields(systemState') # SimFields(systemState) =>
              bOp' \in {"tick", "reset", "resetParameters"}
       /\ LorenzSim' # LorenzSim => lOp' \in {"mount", "tick", "reset", "setControl"}
       /\ lOp' \in {"mount", "setControl"} =>
              /\ pointsRef' = <<positionRef'>>
              /\ lOp' = "setControl" => positionRef' = LorenzStep(positionRef, controls')]_vars

\* a Brusselator frame that drew full buffers: two segments of the phase
\* diagram through three stored points, the last of them the current state
C23_Witness ==
    /\ bOp = "tick"
    /\ ~isPaused
    /\ Len(systemState.phasePoints) = maxPoints
    /\ bCanvas = [phase |-> maxPoints - 1, time |-> maxPoints]
    /\ systemState.timePoints[maxPoints] =
           [time |-> systemState.time, x |-> systemState.X, y |-> systemState.Y]

\* a Lorenz frame whose geometry update copied a trail of two or more points
C23_WitnessLorenz ==
    /\ lOp = "tick"
    /\ Len(pointsRef) > 1
    /\ lineRef.drawRange = Len(pointsRef)
    /\ pointsRef[Len(pointsRef)] = positionRef

\* C24: "Reset Parameters" restores all six parameters A, B, k1, k2, k3, k4 to
\* the values the component starts with, and also resets the simulation state
\* and both buffers.
C24_ResetRestoresInitialParameters ==
    [][bOp' = "resetParameters" =>
          /\ \A key \in ParamKeys : parameters'[key] = InitialParameters[key]
          /\ SimFields(systemState') = InitialSimFields]_vars

\* the last entry of a non-empty sequence
Newest(seq) == seq[Len(seq)]

\* C25: whenever a trajectory buffer is non-empty its last entry is the current
\* simulation state: the Lorenz trail ends with the position, phasePoints ends
\* with (X, Y) and timePoints with (time, X, Y), after any sequence of ticks,
\* pause toggles, resets and parameter changes.
C25_TailIsCurrentState ==
    /\ systemState.phasePoints # <<>> =>
           Newest(systemState.phasePoints) = [x |-> systemState.X, y |-> systemState.Y]
    /\ systemState.timePoints # <<>> =>
           Newest(systemState.timePoints) =
               [time |-> systemState.time, x |-> systemState.X, y |-> systemState.Y]
    /\ pointsRef # <<>> => Newest(pointsRef) = positionRef

\* a parameter edited on a Brusselator that has run past a reset: the buffers
\* are not empty and still end with the state
C25_Witness ==
    /\ bOp = "updateParameter"
    /\ Len(systemState.timePoints) >= 2
    /\ systemState.time > 0
    /\ Newest(systemState.timePoints).time = systemState.time
    /\ Newest(systemState.phasePoints).x = systemState.X

\* a Lorenz trail that is full and has dropped points, ending with the position
C25_WitnessLorenz ==
    /\ lOp = "tick"
    /\ Len(lSinceClear) > Len(pointsRef)
    /\ Len(pointsRef) >= 2
    /\ Newest(pointsRef) = positionRef
    /\ pointsRef[1] # positionRef

\* C26: in every reachable state of the Brusselator, phasePoints and timePoints
\* have the same length, the entries at the same index have the same x and the
\* same y, and the times stored in timePoints increase strictly from head to tail.
C26_BuffersAligned ==
    /\ Len(systemState.phasePoints) = Len(systemState.timePoints)
    /\ \A i \in 1..Len(systemState.timePoints) :
           /\ i <= Len(systemState.phasePoints)
           /\ systemState.phasePoints[i].x = systemState.timePoints[i].x
           /\ systemState.phasePoints[i].y = systemState.timePoints[i].y
    /\ \A i, j \in 1..Len(systemState.timePoints) :
           i < j => FLt(systemState.timePoints[i].time, systemState.timePoints[j].time)

\* full buffers that have evicted their oldest point: the head is no longer the
\* first point pushed, and x differs along the buffer
C26_Witness ==
    /\ Len(systemState.phasePoints) = maxPoints
    /\ Len(bAppended) > maxPoints
    /\ systemState.timePoints[1].time > dt
    /\ systemState.phasePoints[1].x # systemState.phasePoints[maxPoints].x

\* C27: every index the Lorenz tick writes into the position array of the line
\* lies within the array allocated for the current line, 3 * trailLength
\* entries: the trail is never longer than the trailLength the attached
\* geometry was allocated with, across ticks, resets and changes of trailLength.
C27_WritesWithinGeometry ==
    /\ 3 * Len(pointsRef) <= lineRef.size
    /\ 3 * lineRef.drawRange <= lineRef.size
    /\ \A f \in lFrames :
           /\ 3 * f.controls.trailLength = lineRef.size
           /\ Len(pointsRef) <= f.controls.trailLength

\* frames ran on a line rebuilt for a shorter trail, and the trail holds more
\* than one point and was copied into the line in full
C27_WitnessShorter ==
    /\ lOp = "tick"
    /\ lEdits > 0
    /\ controls.trailLength < InitialTrailLength
    /\ lineRef.size = 3 * controls.trailLength
    /\ Len(lSinceClear) > controls.trailLength
    /\ Len(pointsRef) = controls.trailLength
    /\ Len(pointsRef) > 1 => lineRef.drawRange = controls.trailLength

\* frames filled a line rebuilt for a longer trail
C27_Witness ==
    /\ lOp = "tick"
    /\ controls.trailLength > InitialTrailLength
    /\ lineRef = [size |-> 3 * controls.trailLength, drawRange |-> controls.trailLength]
    /\ Len(pointsRef) = controls.trailLength

\* the handling of a control change has ended: the setter, the render, the
\* cleanup of the main effect and the effect again
ControlChanged == lOp' = "setControl" /\ controls' # controls

\* C28 as stated: changing sigma, rho, beta, speed or trailLength leaves the
\* position (x, y, z) unchanged and empties the trail, which restarts from
\* length 0.
C28_AsStated ==
    [][ControlChanged => (positionRef' = positionRef /\ pointsRef' = <<>>)]_vars

\* C28 amended: changing sigma, rho, beta, speed or trailLength does not return
\* the position to the seed: the effect that runs on the change empties the
\* trail and calls animate at once, so when the change has been handled the
\* position is one Euler step on from where it was, under the new values, and
\* the trail holds exactly that one point, whatever it held before.
C28_ControlChangeRestartsTrail ==
    [][ControlChanged =>
          /\ positionRef' = LorenzStep(positionRef, controls')
          /\ pointsRef' = <<positionRef'>>
          /\ Len(pointsRef') = 1
          /\ lineRef'.size = 3 * controls'.trailLength]_vars

\* a control was changed on a trail of two or more points, away from the seed:
\* the trail is the one new point
C28_Witness ==
    /\ lOp = "setControl"
    /\ controls.trailLength = InitialTrailLength
    /\ Len(lAppended) > InitialTrailLength
    /\ Len(pointsRef) = 1
    /\ pointsRef[1] = positionRef
    /\ positionRef # LorenzStep(InitialPosition, controls)

\* an edit of a number field of the calculator or the bifurcation diagram ends
FieldEdited == fieldEdits' = fieldEdits + 1

\* the value the last edit left in its field
StoredByEdit ==
    IF component = "calculatorFields" THEN calcParameters[fieldInput.key]
    ELSE bifParameters[fieldInput.key]

\* an edit of a Brusselator field stores 0 for a text that is no number or
\* parses to 0 and the parsed number otherwise, and leaves the other fields
BrusselatorEditStores ==
    bOp' = "updateParameter" =>
        /\ \A key \in ParamKeys : ~IsNaN(parameters'[key])
        /\ \E key \in ParamKeys, v \in ParamInputs :
               parameters' = [parameters EXCEPT
                                 ![key] = IF IsNaN(v) \/ v = 0 THEN 0 ELSE v]

\* C29 as stated: updateParameter never stores NaN: a text that does not parse
\* to a number, or that parses to 0, is stored as 0, and any other parsed
\* number is stored as it is.
C29_AsStated ==
    [][/\ BrusselatorEditStores
       /\ FieldEdited =>
              /\ ~IsNaN(StoredByEdit')
              /\ StoredByEdit' = IF IsNaN(fieldInput'.text.float) \/ fieldInput'.text.float = 0
                                 THEN 0 ELSE fieldInput'.text.float]_vars

\* C29 amended: updateParameter never stores NaN.  In the Brusselator and the
\* bifurcation diagram a text that parseFloat does not read as a number, or
\* reads as 0, is stored as 0 and any other number as it is; the calculator
\* stores a non-zero parseFloat result as it is and otherwise tries parseInt
\* before it stores 0, so a text that parseFloat reads as 0 and parseInt
\* as a non-zero number ("1e-400") is stored as that number.  Nothing is
\* validated: carryingCapacity 0 and negative values are stored like any other.
C29_NeverStoresNaN ==
    [][/\ BrusselatorEditStores
       /\ FieldEdited =>
              /\ ~IsNaN(StoredByEdit')
              /\ LET f == fieldInput'.text.float
                     i == fieldInput'.text.int
                 IN  StoredByEdit' =
                         IF ~IsNaN(f) /\ f # 0 THEN f
                         ELSE IF component = "calculatorFields" /\ ~IsNaN(i) /\ i # 0 THEN i
                         ELSE 0
              /\ \A key \in DOMAIN calcParameters :
                     key # fieldInput'.key => calcParameters'[key] = calcParameters[key]
              /\ \A key \in DOMAIN bifParameters :
                     key # fieldInput'.key => bifParameters'[key] = bifParameters[key]]_vars

\* the calculator has computed again after its carryingCapacity field was
\* emptied: the capacity is 0 and the run divided by it
C29_Witness ==
    /\ component = "calculatorFields"
    /\ calcPc = "done"
    /\ fieldInput = [key |-> "carryingCapacity", text |-> [float |-> NaN, int |-> NaN]]
    /\ calcParameters.carryingCapacity = 0
    /\ Len(populationData) > 1

\* the bifurcation diagram has computed again under a negative carryingCapacity
C29_WitnessNegative ==
    /\ component = "bifurcationFields"
    /\ bifPc = "done"
    /\ fieldEdits > 0
    /\ FLt(bifParameters.carryingCapacity, 0)
    /\ data # <<>>

\* a Brusselator field emptied: its parameter is 0
C29_WitnessBrusselator ==
    /\ bOp = "updateParameter"
    /\ parameters.k3 = 0

\* growthRate >= 0, K > 0 and a population pop >= K
AtOrAboveCapacity(pop, rate, capacity) ==
    /\ FGe(rate, 0)
    /\ FGt(capacity, 0)
    /\ FGe(pop, capacity)

\* neither rate * pop nor pop / capacity overflows
StepStaysFinite(pop, rate, capacity) ==
    /\ IsFinite(FMul(rate, pop))
    /\ IsFinite(FDiv(pop, capacity))

\* C30 as stated: in a logistic step with growthRate >= 0 and K > 0, a
\* population P >= K yields the next population 0, in the year-by-year run and
\* in a bifurcation slice.
C30_AsStated ==
    [][/\ (YearStep /\ AtOrAboveCapacity(currentPopulation, calcParameters.growthRate,
                                         calcParameters.carryingCapacity))
              => currentPopulation' = 0
       /\ (bifT' = bifT + 1
           /\ AtOrAboveCapacity(population, growthRate, bifParameters.carryingCapacity))
              => population' = 0]_vars

\* C30 amended: in a logistic step with growthRate >= 0 and K > 0, a population
\* P >= K yields the next population 0 whenever neither growthRate * P nor
\* P / K overflows (an overflow can make the raw value NaN, which the clamp
\* passes on); a run that starts at or above the capacity under that condition
\* publishes 0 for every year >= 1.
C30_ExtinctAboveCapacity ==
    /\ [][/\ (/\ YearStep
              /\ AtOrAboveCapacity(currentPopulation, calcParameters.growthRate,
                                   calcParameters.carryingCapacity)
              /\ StepStaysFinite(currentPopulation, calcParameters.growthRate,
                                 calcParameters.carryingCapacity))
                 => currentPopulation' = 0
          /\ (/\ bifT' = bifT + 1
              /\ AtOrAboveCapacity(population, growthRate, bifParameters.carryingCapacity)
              /\ StepStaysFinite(population, growthRate, bifParameters.carryingCapacity))
                 => population' = 0]_vars
    /\ []((/\ AtOrAboveCapacity(calcParameters.initialPopulation,
                                calcParameters.growthRate,
                                calcParameters.carryingCapacity)
           /\ StepStaysFinite(calcParameters.initialPopulation,
                              calcParameters.growthRate,
                              calcParameters.carryingCapacity))
              => LaterYears \subseteq {0})

\* a finished run from a population of 10 above the capacity 0.5 at rate 3.8:
\* every later year is 0
C30_Witness ==
    /\ calcPc = "done"
    /\ calcParameters.initialPopulation = Num(10, 1)
    /\ calcParameters.carryingCapacity = Num(1, 2)
    /\ calcParameters.growthRate = Num(38, 10)
    /\ Len(populationData) = 4
    /\ \A k \in 2..4 : populationData[k].population = 0

\* a slice that started at the capacity under a non-zero rate and is extinct
C30_WitnessSlice ==
    /\ bifPc = "sample"
    /\ bifParameters.initialPopulation = bifParameters.carryingCapacity
    /\ FGt(bifParameters.carryingCapacity, 0)
    /\ FGt(growthRate, 0)
    /\ bifParameters.settlePeriods = Num(2, 1)
    /\ population = 0

=============================================================================
